---- MODULE Spec2Model ----
(***************************************************************************)
(* Authorization core of fastapi-casbin-simple: the casbin model of        *)
(* casbin_config.py (request/policy shape, domain-scoped role definition,  *)
(* "some allow" effect, matcher), the shared enforcer and its lazy         *)
(* initialisation, the administrative operations of permissions.py and the *)
(* two call sites of enforce (check_permission, get_user_menus).           *)
(*                                                                         *)
(* Strings are sequences of one-character strings, so that formatting      *)
(* (f"user:{id}", f"{type}:{ws}:{path}"), str.replace and the regular      *)
(* expression that keyMatch2 builds are computed character by character.   *)
(***************************************************************************)
EXTENDS Integers, Sequences, FiniteSets, TLC

VARIABLES
    _enforcer,      \* casbin_config._enforcer: None or the id of an enforcer instance
    enforcers,      \* the AsyncEnforcer instances created so far: id -> [p, g, loaded]
    casbin_rule,    \* rows of the casbin_rule table (the adapter's durable store)
    users,          \* rows of the users table: [id, is_superuser]
    menus,          \* rows of the menus table: [id, path, parent_id]
    workspaces,     \* ids of the rows of the workspaces table
    roles,          \* rows of the roles table: [id, name, workspace_id]
    workspace_users, \* rows of the workspace_users table: [id, user_id, workspace_id, role_id]
    collection_rows, \* rows of the collections table: [id, workspace_id] (no
                    \* handler modelled here inserts one)
    response,       \* outcome of the last handler that ran
    tasks,          \* coroutines in flight: task -> [pc, ...locals]
    fn_in,          \* argument tuple of the pure function under evaluation
    fn_out          \* its result

vars == <<_enforcer, enforcers, casbin_rule, users, menus, workspaces, roles,
          workspace_users, collection_rows, response, tasks, fn_in, fn_out>>

\* the tables only the workspace and collection handlers write
workspace_tables == <<workspaces, roles, workspace_users, collection_rows>>

\* _enforcer = None: no enforcer instance (instances are numbered from 1)
None == 0

(***************************************************************************)
(* Strings                                                                 *)
(***************************************************************************)
DigitChars == <<"0", "1", "2", "3", "4", "5", "6", "7", "8", "9">>

RECURSIVE str(_)
\* Python str(n) of a non-negative int
str(n) == IF n < 10 THEN <<DigitChars[n + 1]>>
          ELSE str(n \div 10) \o <<DigitChars[(n % 10) + 1]>>

Range(f) == {f[i] : i \in DOMAIN f}

RECURSIVE SplitFrom(_, _, _)
\* s.split("/"): the segments of s
SplitFrom(s, i, cur) ==
    IF i > Len(s) THEN <<cur>>
    ELSE IF s[i] = "/" THEN <<cur>> \o SplitFrom(s, i + 1, <<>>)
    ELSE SplitFrom(s, i + 1, Append(cur, s[i]))

Split(s) == SplitFrom(s, 1, <<>>)

\* str.isdigit() and int() of a decimal string
isdigit(s) == Len(s) > 0 /\ \A k \in 1..Len(s) : s[k] \in Range(DigitChars)

RECURSIVE int(_)
int(s) == IF Len(s) = 0 THEN 0
          ELSE 10 * int(SubSeq(s, 1, Len(s) - 1))
               + (CHOOSE d \in 0..9 : DigitChars[d + 1] = s[Len(s)])

StartsWithAt(s, i, old) ==
    /\ i + Len(old) - 1 <= Len(s)
    /\ \A k \in 1..Len(old) : s[i + k - 1] = old[k]

RECURSIVE ReplaceFrom(_, _, _, _)
ReplaceFrom(s, i, old, new) ==
    IF i > Len(s) THEN <<>>
    ELSE IF StartsWithAt(s, i, old)
         THEN new \o ReplaceFrom(s, i + Len(old), old, new)
         ELSE <<s[i]>> \o ReplaceFrom(s, i + 1, old, new)

\* Python s.replace(old, new), old non-empty: left to right, non-overlapping
Replace(s, old, new) == ReplaceFrom(s, 1, old, new)

\* Python `old in s`
Contains(s, old) == \E i \in 1..Len(s) : StartsWithAt(s, i, old)

\* words used by the program and by the requests of the model
s_user == <<"u", "s", "e", "r">>
s_role == <<"r", "o", "l", "e">>
API    == <<"a", "p", "i">>
MENU   == <<"m", "e", "n", "u">>
DATA   == <<"d", "a", "t", "a">>
READ   == <<"r", "e", "a", "d">>
WRITE  == <<"w", "r", "i", "t", "e">>
ALL    == <<"*">>
collections == <<"c", "o", "l", "l", "e", "c", "t", "i", "o", "n", "s">>
datasets    == <<"d", "a", "t", "a", "s", "e", "t", "s">>

ws1 == str(1)
ws2 == str(2)
seg42  == <<"4", "2">>
segabc == <<"a", "b", "c">>

\* keyMatch2, the casbin builtin operator named by the matcher. In order:
\*   1. every "/" followed by a star in key2 becomes "/" followed by dot-star;
\*   2. every ":" followed by one or more non-"/" characters becomes the
\*      character class "one or more non-/ characters" (re.sub, left to right);
\*   3. a key2 that is now a lone star becomes a group around dot-star;
\*   4. key1 is matched against the result, anchored at both ends (re.match).
\* The text inserted by step 2 is kept as the single element NotSlashPlus.
NotSlashPlus == "[^/]+"

RECURSIVE RunEnd(_, _)
\* index just past the run of non-'/' elements of s that starts at i
RunEnd(s, i) == IF i > Len(s) \/ s[i] = "/" THEN i ELSE RunEnd(s, i + 1)

RECURSIVE SubColonFrom(_, _)
\* re.sub of ":[^/]+" by "[^/]+": a ':' followed by at least one non-'/' character
SubColonFrom(s, i) ==
    IF i > Len(s) THEN <<>>
    ELSE IF s[i] = ":" /\ RunEnd(s, i + 1) > i + 1
         THEN <<NotSlashPlus>> \o SubColonFrom(s, RunEnd(s, i + 1))
         ELSE <<s[i]>> \o SubColonFrom(s, i + 1)

KeyMatch2Pattern(key2) ==
    LET a == Replace(key2, <<"/", "*">>, <<"/", ".", "*">>)
        b == SubColonFrom(a, 1)
    IN  IF b = <<"*">> THEN <<"(", ".", "*", ")">> ELSE b

\* number of consecutive '*' in s from index i
RECURSIVE Stars(_, _)
Stars(s, i) == IF i <= Len(s) /\ s[i] = "*" THEN 1 + Stars(s, i + 1) ELSE 0

Atom(ch) == IF ch = "." THEN [kind |-> "dot", c |-> ch, q |-> "1"]
            ELSE IF ch = NotSlashPlus THEN [kind |-> "notslash", c |-> ch, q |-> "+"]
            ELSE [kind |-> "lit", c |-> ch, q |-> "1"]

RECURSIVE ReError(_, _)
\* re.compile raises re.error: a star with nothing to repeat, or a multiple repeat
ReError(s, i) ==
    IF i > Len(s) THEN FALSE
    ELSE IF s[i] = "*" THEN TRUE
    ELSE IF s[i] \in {"(", ")"} THEN ReError(s, i + 1)
    ELSE LET n == Stars(s, i + 1)
         IN  \/ n >= 2
             \/ n = 1 /\ Atom(s[i]).q = "+"
             \/ ReError(s, i + 1 + n)

RECURSIVE ParseFrom(_, _)
\* the compiled regular expression (no re.error): a sequence of quantified atoms
ParseFrom(s, i) ==
    IF i > Len(s) THEN <<>>
    ELSE IF s[i] \in {"(", ")"} THEN ParseFrom(s, i + 1)
    ELSE LET n == Stars(s, i + 1)
             a == Atom(s[i])
         IN  <<IF n = 1 THEN [a EXCEPT !.q = "*"] ELSE a>> \o ParseFrom(s, i + 1 + n)

AtomAccepts(a, ch) ==
    CASE a.kind = "dot"      -> TRUE
      [] a.kind = "notslash" -> ch # "/"
      [] OTHER               -> ch = a.c

\* positions of `text` reachable after the atom, from the positions in S
StepAtom(a, S, text) ==
    LET run(i, j) == \A k \in (i + 1)..j : AtomAccepts(a, text[k])
    IN  CASE a.q = "1" -> {i + 1 : i \in {x \in S : x < Len(text) /\ AtomAccepts(a, text[x + 1])}}
          [] a.q = "*" -> {j \in 0..Len(text) : \E i \in S : i <= j /\ run(i, j)}
          [] OTHER     -> {j \in 0..Len(text) : \E i \in S : i < j /\ run(i, j)}

RECURSIVE RunRegex(_, _, _, _)
RunRegex(re, k, S, text) ==
    IF k > Len(re) THEN S ELSE RunRegex(re, k + 1, StepAtom(re[k], S, text), text)

\* re.match("^" + pattern + "$", text) is not None, for a pattern that compiles
RegexMatch(text, pattern) ==
    Len(text) \in RunRegex(ParseFrom(pattern, 1), 1, {0}, text)

\* keyMatch2(key1, key2) raises re.error (the pattern built from key2 does not compile)
keyMatch2Raises(key2) == ReError(KeyMatch2Pattern(key2), 1)

keyMatch2(key1, key2) == RegexMatch(key1, KeyMatch2Pattern(key2))

(***************************************************************************)
(* The casbin model of casbin_config.MODEL_CONF.                           *)
(*   request r = <<sub, dom, obj, act>>, policy p = <<sub, dom, obj, act>>, *)
(*   grouping g = <<member, role, domain>>.                                *)
(***************************************************************************)
WILDCARD == <<"*">>

\* names directly linked from the names in S by a grouping stored in domain dom
DirectRoles(G, S, dom) == {t[2] : t \in {x \in Range(G) : x[3] = dom /\ x[1] \in S}}

RECURSIVE LinkedFrom(_, _, _)
LinkedFrom(G, S, dom) ==
    LET T == S \cup DirectRoles(G, S, dom)
    IN  IF T = S THEN S ELSE LinkedFrom(G, T, dom)

\* g = _, _, _ : the role manager's has_link(name1, name2, domain). A name is
\* linked to itself; otherwise only the links stored under exactly `domain`
\* count (no domain matching function is configured on the role manager).
has_link_any_domain(G, name1, name2, domain) ==
    \/ name1 = name2
    \/ \E d \in {t[3] : t \in Range(G)} : name2 \in LinkedFrom(G, {name1}, d)

has_link(G, name1, name2, domain) ==
    \/ name1 = name2
    \/ name2 \in LinkedFrom(G, {name1}, domain)

\* the subjects whose policies apply to sub in dom: the p.sub with g(r.sub, p.sub, r.dom)
EffectiveSubjects(G, sub, dom, candidates) ==
    {x \in candidates : has_link(G, sub, x, dom)}

\* evaluating the matcher raises (and/&& short-circuits left to right)
matcherRaises(G, r, p) ==
    /\ has_link(G, r[1], p[1], r[2])
    /\ (r[2] = p[2] \/ p[2] = WILDCARD)
    /\ keyMatch2Raises(p[3])

matcher_any_action(G, r, p) ==
    /\ has_link(G, r[1], p[1], r[2])
    /\ (r[2] = p[2] \/ p[2] = WILDCARD)
    /\ keyMatch2(r[3], p[3])

\* m = g(r.sub, p.sub, r.dom) && (r.dom == p.dom || p.dom == '*') &&
\*     keyMatch2(r.obj, p.obj) && (r.act == p.act || p.act == '*')
matcher(G, r, p) ==
    /\ has_link(G, r[1], p[1], r[2])
    /\ (r[2] = p[2] \/ p[2] = WILDCARD)
    /\ keyMatch2(r[3], p[3])
    /\ (r[4] = p[4] \/ p[4] = WILDCARD)

EmptyPolicy == <<<<>>, <<>>, <<>>, <<>>>>

\* the policies enforce evaluates, in order: the stored list, or one policy
\* of empty strings when nothing is stored
Evaluated(P) == IF Len(P) = 0 THEN <<EmptyPolicy>> ELSE P

RECURSIVE FirstDecisive(_, _, _, _)
\* index of the first policy on which the matcher raises or yields true, 0 if none
FirstDecisive(G, P, r, i) ==
    IF i > Len(P) THEN 0
    ELSE IF matcherRaises(G, r, P[i]) \/ matcher(G, r, P[i]) THEN i
    ELSE FirstDecisive(G, P, r, i + 1)

enforceRaises(e, r) ==
    LET P == Evaluated(e.p)
        i == FirstDecisive(e.g, P, r, 1)
    IN  i # 0 /\ matcherRaises(e.g, r, P[i])

enforce_last_policy_only(e, r) ==
    LET P == Evaluated(e.p)
    IN  ~matcherRaises(e.g, r, P[Len(P)]) /\ matcher(e.g, r, P[Len(P)])

\* e = some(where (p.eft == allow)): enforcer.enforce(sub, dom, obj, act); the
\* walk over the policies stops at the first policy that allows
enforce(e, r) ==
    LET P == Evaluated(e.p)
        i == FirstDecisive(e.g, P, r, 1)
    IN  i # 0 /\ ~matcherRaises(e.g, r, P[i])

\* f"user:{id}", f"role:{id}", f"{resource_type}:{workspace_id}:{path}"
user_key(id) == s_user \o <<":">> \o str(id)
role_key(id) == s_role \o <<":">> \o str(id)
resource_obj(resource_type, workspace_id, path) ==
    resource_type \o <<":">> \o workspace_id \o <<":">> \o path

(***************************************************************************)
(* The shared enforcer and the policy store                                *)
(***************************************************************************)
\* AsyncEnforcer(model, adapter): the constructor loads nothing
NewEnforcer == [p |-> <<>>, g |-> <<>>, loaded |-> FALSE]

RulesOf(rows, sec) ==
    LET sel == SelectSeq(rows, LAMBDA row : row[1] = sec)
    IN  [i \in 1..Len(sel) |-> Tail(sel[i])]

\* enforcer.load_policy(): the in-memory lists become the rows of the table
load_policy(e, rows) ==
    [e EXCEPT !.p = RulesOf(rows, "p"), !.g = RulesOf(rows, "g"), !.loaded = TRUE]

has_policy(e, sec, rule) == rule \in Range(IF sec = "p" THEN e.p ELSE e.g)

\* enforcer.add_policy / add_grouping_policy on instance e with the table rows:
\* a rule the enforcer already holds is not added again (returns False); else
\* the adapter inserts the row and the rule is appended to the in-memory list
add_rule_no_dup_check(e, rows, sec, rule) ==
    [e |-> IF sec = "p" THEN [e EXCEPT !.p = Append(@, rule)]
                        ELSE [e EXCEPT !.g = Append(@, rule)],
     rows |-> Append(rows, <<sec>> \o rule),
     added |-> TRUE]

add_rule_replacing(e, rows, sec, rule) ==
    IF has_policy(e, sec, rule)
    THEN [e |-> e, rows |-> rows, added |-> FALSE]
    ELSE [e |-> IF sec = "p" THEN [e EXCEPT !.p = <<rule>>]
                             ELSE [e EXCEPT !.g = <<rule>>],
          rows |-> <<<<sec>> \o rule>>,
          added |-> TRUE]

add_rule(e, rows, sec, rule) ==
    IF has_policy(e, sec, rule)
    THEN [e |-> e, rows |-> rows, added |-> FALSE]
    ELSE [e |-> IF sec = "p" THEN [e EXCEPT !.p = Append(@, rule)]
                             ELSE [e EXCEPT !.g = Append(@, rule)],
          rows |-> Append(rows, <<sec>> \o rule),
          added |-> TRUE]

\* get_enforcer() run without interruption: the shared instance, created and
\* loaded by init_enforcer() first when there is none
GetEnforcer ==
    IF _enforcer = None
    THEN [id |-> Len(enforcers) + 1,
          es |-> Append(enforcers, load_policy(NewEnforcer, casbin_rule))]
    ELSE [id |-> _enforcer, es |-> enforcers]

(***************************************************************************)
(* permissions.py: the administrative operations and check_permission      *)
(***************************************************************************)
assign_role_rule(role_id, workspace_id, resource_type, resource_path, action) ==
    <<role_key(role_id), str(workspace_id),
      resource_obj(resource_type, str(workspace_id), resource_path), action>>

assign_user_rule(user_id, workspace_id, resource_type, resource_path, action) ==
    <<user_key(user_id), str(workspace_id),
      resource_obj(resource_type, str(workspace_id), resource_path), action>>

assign_role_grouping_swapped(user_id, role_id, workspace_id) ==
    <<role_key(role_id), user_key(user_id), str(workspace_id)>>

assign_role_grouping(user_id, role_id, workspace_id) ==
    <<user_key(user_id), role_key(role_id), str(workspace_id)>>

n_workspace_id  == <<"w", "o", "r", "k", "s", "p", "a", "c", "e", "_", "i", "d">>
n_collection_id == <<"c", "o", "l", "l", "e", "c", "t", "i", "o", "n", "_", "i", "d">>

RECURSIVE FindParam(_, _, _)
\* the value of the first path parameter called name; the empty string stands
\* for None when there is none (the caller only tests `not workspace_id`)
FindParam(path_params, name, i) ==
    IF i > Len(path_params) THEN <<>>
    ELSE IF path_params[i][1] = name THEN path_params[i][2]
    ELSE FindParam(path_params, name, i + 1)

ReplaceIfIn(s, placeholder, value) ==
    IF Contains(s, placeholder) THEN Replace(s, placeholder, value) ELSE s

RECURSIVE Substitute(_, _, _)
\* the loop over request.path_params.items(): "{name}" then ":name" per parameter
Substitute(actual_path, path_params, i) ==
    IF i > Len(path_params) THEN actual_path
    ELSE LET name  == path_params[i][1]
             value == path_params[i][2]
             a == ReplaceIfIn(actual_path, <<"{">> \o name \o <<"}">>, value)
             b == ReplaceIfIn(a, <<":">> \o name, value)
         IN  Substitute(b, path_params, i + 1)

\* not workspace_id: no such parameter (None), or an empty value
Falsy(v) == v = <<>>

check_permission_no_bypass(route, current_user, path_params, e) ==
    LET workspace_id == FindParam(path_params, n_workspace_id, 1)
        base == [op |-> "check_permission", user |-> current_user.id,
                 is_superuser |-> current_user.is_superuser, route |-> route,
                 path_params |-> path_params]
    IN  IF Falsy(workspace_id)
        THEN base @@ [status |-> 400, enforced |-> FALSE, r |-> <<>>]
        ELSE LET r == <<user_key(current_user.id), workspace_id,
                        resource_obj(route.resource_type, workspace_id,
                                     Substitute(route.resource_path, path_params, 1)),
                        route.action>>
             IN  base @@ [enforced |-> TRUE, r |-> r,
                          status |-> IF enforceRaises(e, r) THEN 500
                                     ELSE IF enforce(e, r) THEN 200 ELSE 403]

check_permission_no_workspace_check(route, current_user, path_params, e) ==
    LET workspace_id == FindParam(path_params, n_workspace_id, 1)
        base == [op |-> "check_permission", user |-> current_user.id,
                 is_superuser |-> current_user.is_superuser, route |-> route,
                 path_params |-> path_params]
    IN  IF current_user.is_superuser
        THEN base @@ [status |-> 200, enforced |-> FALSE, r |-> <<>>]
        ELSE LET r == <<user_key(current_user.id), workspace_id,
                        resource_obj(route.resource_type, workspace_id,
                                     Substitute(route.resource_path, path_params, 1)),
                        route.action>>
             IN  base @@ [enforced |-> TRUE, r |-> r,
                          status |-> IF enforceRaises(e, r) THEN 500
                                     ELSE IF enforce(e, r) THEN 200 ELSE 403]

\* check_permission(request, current_user) of require_permission(resource_type,
\* resource_path, action), on enforcer e: the response it ends in
check_permission(route, current_user, path_params, e) ==
    LET workspace_id == FindParam(path_params, n_workspace_id, 1)
        base == [op |-> "check_permission", user |-> current_user.id,
                 is_superuser |-> current_user.is_superuser, route |-> route,
                 path_params |-> path_params]
    IN  IF current_user.is_superuser
        THEN base @@ [status |-> 200, enforced |-> FALSE, r |-> <<>>]
        ELSE IF Falsy(workspace_id)
        THEN base @@ [status |-> 400, enforced |-> FALSE, r |-> <<>>]
        ELSE LET r == <<user_key(current_user.id), workspace_id,
                        resource_obj(route.resource_type, workspace_id,
                                     Substitute(route.resource_path, path_params, 1)),
                        route.action>>
             IN  base @@ [enforced |-> TRUE, r |-> r,
                          status |-> IF enforceRaises(e, r) THEN 500
                                     ELSE IF enforce(e, r) THEN 200 ELSE 403]

(***************************************************************************)
(* Spec: the handlers run one after another (no two requests overlap).     *)
(***************************************************************************)
Idle == [op |-> "none"]
NotDone == [done |-> FALSE]

MaxRules == 2

RoleIds      == {1}
UserIds      == {2}
WorkspaceIds == {1, 2}
ResourcePaths == {collections, collections \o <<"/", "*">>}
Actions      == {READ, WRITE}
\* the direct (per-user) grants the model draws
UserResourcePaths == {collections \o <<"/", "*">>}
UserActions       == {READ}

\* what the identity layer hands to a handler as current_user: the seeded
\* superuser, or an ordinary user
CurrentUsers == {[id |-> 1, is_superuser |-> TRUE], [id |-> 2, is_superuser |-> FALSE]}

\* require_permission(resource_type, resource_path, action) of the collection routes
Routes == {
    [resource_type |-> API, resource_path |-> collections, action |-> WRITE],
    [resource_type |-> API, resource_path |-> collections, action |-> READ],
    [resource_type |-> API,
     resource_path |-> collections \o <<"/", "{">> \o n_collection_id \o <<"}">>,
     action |-> READ] }

\* request.path_params, in the order of the route path
PathParams == {
    <<>>,
    <<<<n_workspace_id, ws1>>, <<n_collection_id, seg42>>>>,
    <<<<n_workspace_id, ws2>>, <<n_collection_id, seg42>>>> }

Init ==
    /\ _enforcer = None
    /\ enforcers = <<>>
    /\ casbin_rule = <<>>
    /\ users = {}
    /\ menus = <<>>
    /\ workspaces = {}
    /\ roles = {}
    /\ workspace_users = {}
    /\ collection_rows = {}
    /\ response = Idle
    /\ tasks = <<>>
    /\ fn_in = Idle
    /\ fn_out = NotDone

\* main.lifespan at startup, before any request is served: init_enforcer(),
\* then the superuser is created when the users table has none
lifespan ==
    /\ response = Idle
    /\ _enforcer' = GetEnforcer.id
    /\ enforcers' = GetEnforcer.es
    /\ users' = IF \E u \in users : u.is_superuser THEN users
                ELSE users \cup {[id |-> Cardinality(users) + 1, is_superuser |-> TRUE]}
    /\ response' = [op |-> "lifespan"]
    /\ UNCHANGED <<casbin_rule, menus, tasks, fn_in, fn_out, workspace_tables>>

\* the application serves requests once lifespan has run
Started == response # Idle

\* one administrative call: get_enforcer(), then add the rule. `repeated` notes
\* whether the enforcer already held the rule when the call was made.
Assign(opname, sec, rule) ==
    LET got == GetEnforcer
        res == add_rule(got.es[got.id], casbin_rule, sec, rule)
    IN  /\ Started
        /\ Len(casbin_rule) < MaxRules \/ ~res.added
        /\ _enforcer' = got.id
        /\ enforcers' = [got.es EXCEPT ![got.id] = res.e]
        /\ casbin_rule' = res.rows
        /\ response' = [op |-> opname, returned |-> TRUE,
                        repeated |-> <<sec>> \o rule \in Range(casbin_rule)]
        /\ UNCHANGED <<users, menus, tasks, fn_in, fn_out, workspace_tables>>

assign_role_permission ==
    \E role_id \in RoleIds, workspace_id \in WorkspaceIds,
       resource_path \in ResourcePaths, action \in Actions :
        Assign("assign_role_permission", "p",
               assign_role_rule(role_id, workspace_id, API, resource_path, action))

assign_user_permission ==
    \E user_id \in UserIds, workspace_id \in WorkspaceIds,
       resource_path \in UserResourcePaths, action \in UserActions :
        Assign("assign_user_permission", "p",
               assign_user_rule(user_id, workspace_id, API, resource_path, action))

assign_user_role ==
    \E user_id \in UserIds, role_id \in RoleIds, workspace_id \in WorkspaceIds :
        Assign("assign_user_role", "g", assign_role_grouping(user_id, role_id, workspace_id))

\* a request to a route guarded by require_permission
RequestCheckPermission ==
    \E route \in Routes, current_user \in CurrentUsers, path_params \in PathParams :
        LET got == GetEnforcer
        IN  /\ Started
            /\ _enforcer' = got.id
            /\ enforcers' = got.es
            /\ response' = check_permission(route, current_user, path_params, got.es[got.id])
            /\ UNCHANGED <<casbin_rule, users, menus, tasks, fn_in, fn_out, workspace_tables>>

Next ==
    \/ lifespan
    \/ assign_role_permission
    \/ assign_user_permission
    \/ assign_user_role
    \/ RequestCheckPermission

Spec == Init /\ [][Next]_vars

\* the three rules of the matcher, as the claims name them
DomainRule(r, p) == r[2] = p[2] \/ p[2] = WILDCARD
ObjectRule(r, p) == keyMatch2(r[3], p[3])
ActionRule(r, p) == r[4] = p[4] \/ p[4] = WILDCARD

(***************************************************************************)
(* Claims about enforcement and the administrative operations (Spec)       *)
(***************************************************************************)
StoredPolicies  == {Tail(row) : row \in {x \in Range(casbin_rule) : x[1] = "p"}}
StoredGroupings == {Tail(row) : row \in {x \in Range(casbin_rule) : x[1] = "g"}}

\* the roles granted to sub in dom by a stored grouping
RolesIn(sub, dom) == {t[2] : t \in {x \in StoredGroupings : x[1] = sub /\ x[3] = dom}}

ExamplePolicy   == <<role_key(1), ws1, resource_obj(API, ws1, collections), WRITE>>
ExampleGrouping == <<user_key(2), role_key(1), ws1>>
ExampleRequest  == <<user_key(2), ws1, resource_obj(API, ws1, collections), WRITE>>

\* C1: for a non-superuser request, enforce allows if and only if some stored
\* policy has as subject the user or one of the user's roles in the request
\* domain and matches the request in domain, object and action; with policy
\* (role:1, 1, api:1:collections, write) and grouping (user:2, role:1, 1)
\* stored, the request (user:2, 1, api:1:collections, write) is allowed.
C1_AllowIffSomePolicyMatches ==
    (response.op = "check_permission" /\ response.enforced) =>
        LET r == response.r
            subjects == {r[1]} \cup RolesIn(r[1], r[2])
        IN  /\ response.status \in {200, 403}
            /\ (response.status = 200) <=>
                   \E p \in StoredPolicies :
                       /\ p[1] \in subjects
                       /\ DomainRule(r, p) /\ ObjectRule(r, p) /\ ActionRule(r, p)
            /\ (r = ExampleRequest /\ ExamplePolicy \in StoredPolicies
                /\ ExampleGrouping \in StoredGroupings) => response.status = 200

\* the example request allowed through the role, on a store holding exactly
\* the example policy and the example grouping
C1_Witness ==
    /\ response.op = "check_permission" /\ response.enforced
    /\ response.r = ExampleRequest
    /\ casbin_rule = <<<<"p">> \o ExamplePolicy, <<"g">> \o ExampleGrouping>>
    /\ response.status = 200

RequestObjects ==
    {resource_obj(API, str(w), path) :
        w \in WorkspaceIds, path \in {collections, collections \o <<"/">> \o seg42}}

\* C2: a user holding role R only through groupings of other domains is, for
\* a request in domain d2, matched by no policy whose subject is R.
C2_RoleDomainScoping ==
    _enforcer # None =>
        LET e == enforcers[_enforcer]
        IN  \A u \in UserIds, R \in RoleIds, d2 \in WorkspaceIds :
                (assign_role_grouping(u, R, d2) \notin Range(e.g)) =>
                    \A p \in {x \in Range(e.p) : x[1] = role_key(R)} :
                        \A obj \in RequestObjects, act \in Actions :
                            ~matcher(e.g, <<user_key(u), str(d2), obj, act>>, p)

\* user:2 holds role:1 in workspace 1 only; role:1 may read the collections of
\* workspace 2; the user's read request in workspace 2 is refused
C2_Witness ==
    /\ response.op = "check_permission" /\ response.enforced
    /\ response.r = <<user_key(2), ws2, resource_obj(API, ws2, collections), READ>>
    /\ <<role_key(1), ws2, resource_obj(API, ws2, collections), READ>> \in StoredPolicies
    /\ StoredGroupings = {<<user_key(2), role_key(1), ws1>>}
    /\ response.status = 403

\* C5: for a superuser check_permission allows every request, whatever the
\* policy set and the path parameters, and calls enforce on no policy.
C5_SuperuserBypass ==
    (response.op = "check_permission" /\ response.is_superuser) =>
        response.status = 200 /\ ~response.enforced

\* a superuser allowed on an empty store, on a request without workspace_id
C5_Witness ==
    /\ response.op = "check_permission" /\ response.is_superuser
    /\ casbin_rule = <<>>
    /\ response.path_params = <<>>
    /\ response.status = 200

AssignOps == {"assign_role_permission", "assign_user_permission", "assign_user_role"}

NoDuplicate(list) == \A i, j \in 1..Len(list) : list[i] = list[j] => i = j

\* C8: an assignment repeated with the arguments of an earlier call returns
\* True and leaves the table and the enforcer's policy and grouping lists as
\* they were; no list ever holds a tuple twice.
C8_AssignmentIdempotent ==
    /\ [](/\ NoDuplicate(casbin_rule)
          /\ \A i \in 1..Len(enforcers) :
                 NoDuplicate(enforcers[i].p) /\ NoDuplicate(enforcers[i].g))
    /\ [][(response'.op \in AssignOps /\ response'.repeated) =>
              /\ response'.returned
              /\ casbin_rule' = casbin_rule
              /\ enforcers'[_enforcer'].p = RulesOf(casbin_rule, "p")
              /\ enforcers'[_enforcer'].g = RulesOf(casbin_rule, "g")]_vars

\* a repeated assignment to a store that holds the rule
C8_Witness ==
    /\ response.op \in AssignOps
    /\ response.repeated
    /\ Len(casbin_rule) >= 1

\* the request carries no workspace_id path parameter
NoWorkspaceParam(path_params) ==
    ~\E i \in 1..Len(path_params) : path_params[i][1] = n_workspace_id

\* C13: whenever the request carries no workspace_id path parameter, the
\* permission check ends in 400 and enforce is not called.
C13_MissingWorkspaceIs400 ==
    (response.op = "check_permission" /\ NoWorkspaceParam(response.path_params)) =>
        (response.status = 400 /\ ~response.enforced)

\* C13 amended: for a caller who is not a superuser, a request without a
\* workspace_id path parameter ends in 400 and enforce is not called (a
\* superuser is let through before the parameter is looked for).
C13_MissingWorkspaceIs400UnlessSuperuser ==
    (response.op = "check_permission" /\ NoWorkspaceParam(response.path_params)
        /\ ~response.is_superuser) =>
        (response.status = 400 /\ ~response.enforced)

\* a non-superuser request without workspace_id was answered, with policies stored
C13_Witness ==
    /\ response.op = "check_permission"
    /\ NoWorkspaceParam(response.path_params)
    /\ ~response.is_superuser
    /\ response.status = 400
    /\ Len(casbin_rule) >= 1

\* the requests a non-superuser can put to enforce through the routes
RouteRequests ==
    {<<user_key(u.id), pp[1][2],
       resource_obj(route.resource_type, pp[1][2],
                    Substitute(route.resource_path, pp, 1)), route.action>> :
        u \in {c \in CurrentUsers : ~c.is_superuser}, route \in Routes,
        pp \in {q \in PathParams : ~NoWorkspaceParam(q)}}

\* the decision the shared enforcer gives r in the current state
Allowed(id, es, r) == id # None /\ ~enforceRaises(es[id], r) /\ enforce(es[id], r)

\* C16: a permission or grouping tuple, once added, is present in every later
\* state (in the table and in the shared enforcer's lists), and a request
\* that is allowed stays allowed (a step that leaves the enforcer as it is
\* leaves every decision as it is).
C16_FactsPersist ==
    [][ /\ \A row \in Range(casbin_rule) : row \in Range(casbin_rule')
        /\ _enforcer # None =>
               /\ _enforcer' = _enforcer
               /\ \A p \in Range(enforcers[_enforcer].p) : p \in Range(enforcers'[_enforcer'].p)
               /\ \A g \in Range(enforcers[_enforcer].g) : g \in Range(enforcers'[_enforcer'].g)
        /\ <<_enforcer, enforcers>>' # <<_enforcer, enforcers>> =>
               \A r \in RouteRequests :
                   Allowed(_enforcer, enforcers, r) => Allowed(_enforcer', enforcers', r) ]_vars

\* a request is allowed while a policy and a grouping are stored
C16_Witness ==
    /\ Cardinality(StoredPolicies) >= 1
    /\ Cardinality(StoredGroupings) >= 1
    /\ \E r \in RouteRequests : Allowed(_enforcer, enforcers, r)

(***************************************************************************)
(* SpecInit: coroutines that call get_enforcer() / init_enforcer() while   *)
(* others are suspended at an await. A step is the code between two awaits *)
(* that suspend: create_casbin_tables(), load_policy() and the adapter's   *)
(* add_policy() do I/O and suspend; everything else runs without a switch. *)
(***************************************************************************)
MaxTasks == 3

TaskIds == 1..MaxTasks

\* what a coroutine runs: a direct call of init_enforcer (as main.lifespan
\* makes), an administrative handler (get_enforcer, queries,
\* assign_user_permission) or check_permission
TaskKinds == {"init", "assign", "check"}

\* the rule the administrative handler adds and the request that needs it
InitRule    == assign_user_rule(2, 1, API, collections, READ)
InitRequest == <<user_key(2), ws1, resource_obj(API, ws1, collections), READ>>

\* the rows the casbin_rule table (the file app.db) can hold when the process
\* starts: none, or the rule written in an earlier run
InitRows == {<<>>, <<<<"p">> \o InitRule>>}

\* obtained_loaded and rule_stored note, for the instance a coroutine was
\* handed, whether load_policy had completed on it and whether the rule's row
\* was in the table at that moment
IdleTask == [pc |-> "idle", kind |-> "none", enforcer |-> None, loading |-> None,
             after_write |-> FALSE, result |-> "none",
             obtained_loaded |-> FALSE, rule_stored |-> FALSE]

InitTasks ==
    /\ _enforcer = None
    /\ enforcers = <<>>
    /\ casbin_rule \in InitRows
    /\ users = {}
    /\ menus = <<>>
    /\ workspaces = {}
    /\ roles = {}
    /\ workspace_users = {}
    /\ collection_rows = {}
    /\ response = Idle
    /\ tasks = [t \in TaskIds |-> IdleTask]
    /\ fn_in = Idle
    /\ fn_out = NotDone

\* an assignment has returned to its caller
WriteReturned == \E w \in TaskIds : tasks[w].kind = "assign" /\ tasks[w].pc = "done"

\* a coroutine is started; after_write notes whether it starts after an
\* assignment returned
StartTask(t) ==
    /\ tasks[t].pc = "idle"
    /\ \E kind \in TaskKinds :
           tasks' = [tasks EXCEPT ![t] = [IdleTask EXCEPT !.pc = "start", !.kind = kind,
                                                         !.after_write = WriteReturned]]
    /\ UNCHANGED <<_enforcer, enforcers, casbin_rule, users, menus, response, fn_in, fn_out, workspace_tables>>

\* the caller has the value `id` of _enforcer in hand and runs on to its next
\* await: the init_enforcer call is done, check_permission calls enforce at once, the
\* administrative handler awaits its queries first
Obtained(task, id, es) ==
    LET got == [task EXCEPT !.enforcer = id, !.obtained_loaded = es[id].loaded,
                            !.rule_stored = <<"p">> \o InitRule \in Range(casbin_rule)]
    IN  CASE task.kind = "check" ->
                [got EXCEPT !.pc = "done",
                            !.result = IF enforce(es[id], InitRequest) THEN "allow" ELSE "deny"]
          [] task.kind = "assign" -> [got EXCEPT !.pc = "have_enforcer"]
          [] OTHER -> [got EXCEPT !.pc = "done"]

\* get_enforcer() / init_enforcer() up to the first await: `if _enforcer is
\* None` is read; when it is, create_casbin_tables() is awaited
get_enforcer(t) ==
    /\ tasks[t].pc = "start"
    /\ tasks' = [tasks EXCEPT ![t] =
                    IF _enforcer = None THEN [@ EXCEPT !.pc = "create_casbin_tables"]
                    ELSE Obtained(@, _enforcer, enforcers)]
    /\ UNCHANGED <<_enforcer, enforcers, casbin_rule, users, menus, response, fn_in, fn_out, workspace_tables>>

\* init_enforcer() after create_casbin_tables(): _adapter and _enforcer are
\* assigned a new adapter and a new, empty enforcer; load_policy() is awaited
init_enforcer_construct(t) ==
    /\ tasks[t].pc = "create_casbin_tables"
    /\ enforcers' = Append(enforcers, NewEnforcer)
    /\ _enforcer' = Len(enforcers) + 1
    /\ tasks' = [tasks EXCEPT ![t] = [@ EXCEPT !.pc = "load_policy",
                                               !.loading = Len(enforcers) + 1]]
    /\ UNCHANGED <<casbin_rule, users, menus, response, fn_in, fn_out, workspace_tables>>

\* load_policy() completes on the instance it was called on; init_enforcer()
\* and get_enforcer() return the current value of _enforcer
init_enforcer_loaded(t) ==
    /\ tasks[t].pc = "load_policy"
    /\ LET es == [enforcers EXCEPT ![tasks[t].loading] = load_policy(@, casbin_rule)]
       IN  /\ enforcers' = es
           /\ tasks' = [tasks EXCEPT ![t] = Obtained(@, _enforcer, es)]
    /\ UNCHANGED <<_enforcer, casbin_rule, users, menus, response, fn_in, fn_out, workspace_tables>>

\* enforcer.add_policy(): has_policy, then the adapter's insert is awaited
add_policy_begin(t) ==
    /\ tasks[t].pc = "have_enforcer"
    /\ tasks' = [tasks EXCEPT ![t] =
                    IF has_policy(enforcers[tasks[t].enforcer], "p", InitRule)
                    THEN [@ EXCEPT !.pc = "done", !.result = "returned"]
                    ELSE [@ EXCEPT !.pc = "adapter_add_policy"]]
    /\ UNCHANGED <<_enforcer, enforcers, casbin_rule, users, menus, response, fn_in, fn_out, workspace_tables>>

\* the row is committed, the rule is added to the enforcer's list, the call returns
add_policy_commit(t) ==
    /\ tasks[t].pc = "adapter_add_policy"
    /\ casbin_rule' = Append(casbin_rule, <<"p">> \o InitRule)
    /\ enforcers' = [enforcers EXCEPT ![tasks[t].enforcer] =
                        IF has_policy(@, "p", InitRule) THEN @
                        ELSE [@ EXCEPT !.p = Append(@, InitRule)]]
    /\ tasks' = [tasks EXCEPT ![t] = [@ EXCEPT !.pc = "done", !.result = "returned"]]
    /\ UNCHANGED <<_enforcer, users, menus, response, fn_in, fn_out, workspace_tables>>

NextTasks ==
    \E t \in TaskIds :
        \/ StartTask(t)
        \/ get_enforcer(t)
        \/ init_enforcer_construct(t)
        \/ init_enforcer_loaded(t)
        \/ add_policy_begin(t)
        \/ add_policy_commit(t)

SpecInit == InitTasks /\ [][NextTasks]_vars

\* C7: the heavy setup of init_enforcer runs at most once (at most one
\* enforcer instance is ever constructed and loaded) and every caller of
\* get_enforcer / init_enforcer receives the same instance.
C7_InitAtMostOnce ==
    /\ Len(enforcers) <= 1
    /\ \A t, u \in TaskIds :
           (tasks[t].enforcer # None /\ tasks[u].enforcer # None) =>
               tasks[t].enforcer = tasks[u].enforcer

\* C10: once an assignment has returned, its tuple is in the table, and every
\* check that starts afterwards is evaluated on a policy list that holds it
\* (so the request the tuple grants is allowed).
C10_WriteVisible ==
    /\ WriteReturned => <<"p">> \o InitRule \in Range(casbin_rule)
    /\ \A t \in TaskIds :
           (tasks[t].kind = "check" /\ tasks[t].pc = "done" /\ tasks[t].after_write) =>
               /\ InitRule \in Range(enforcers[tasks[t].enforcer].p)
               /\ tasks[t].result = "allow"

\* C19: no caller is handed the shared enforcer, and no enforce is evaluated on
\* it, before load_policy has completed on that instance; a request is not
\* denied while the rule that grants it is in the table.
C19_NeverUnloadedEnforcer ==
    \A t \in TaskIds :
        /\ tasks[t].enforcer # None => tasks[t].obtained_loaded
        /\ (tasks[t].kind = "check" /\ tasks[t].pc = "done" /\ tasks[t].rule_stored) =>
               tasks[t].result = "allow"

(***************************************************************************)
(* SpecMenus: users, menus and permissions.get_user_menus, the second call *)
(* site of enforce. Handlers run one after another.                        *)
(***************************************************************************)
MaxUsers == 2
MaxMenus == 2

MenuNames == {"m1", "m2"}
MenuPaths == {<<"/", "a">>, <<"/", "b">>}
\* MenuCreate.parent_id is Optional[int]: <<>> is None, <<n>> the int n
ParentIds == {<<>>, <<0>>, <<1>>, <<2>>}

\* AsyncEnforcer.enforce is an ordinary method: its value is a bool, and a
\* bool cannot be awaited (TypeError)
IsAwaitable(value) == value \notin BOOLEAN

RECURSIVE accessible_menus(_, _, _, _, _, _)
\* the loop of get_user_menus over all_menus from index i
accessible_menus(e, user_id, workspace_id, all_menus, i, acc) ==
    IF i > Len(all_menus) THEN [raised |-> "none", menus |-> acc]
    ELSE LET r == <<user_key(user_id), str(workspace_id),
                    resource_obj(MENU, str(workspace_id), all_menus[i].path), READ>>
         IN  IF enforceRaises(e, r) THEN [raised |-> "re.error", menus |-> acc]
             ELSE IF ~IsAwaitable(enforce(e, r)) THEN [raised |-> "TypeError", menus |-> acc]
             ELSE accessible_menus(e, user_id, workspace_id, all_menus, i + 1,
                                   IF enforce(e, r) THEN Append(acc, all_menus[i].id) ELSE acc)

\* permissions.get_user_menus(user_id, workspace_id, db, enforcer): the ids of
\* the menus it returns, or the exception it raises
get_user_menus(user_id, workspace_id, e) ==
    LET found == {u \in users : u.id = user_id}
    IN  IF \E u \in found : u.is_superuser
        THEN [raised |-> "none", menus |-> [i \in 1..Len(menus) |-> menus[i].id]]
        ELSE accessible_menus(e, user_id, workspace_id, menus, 1, <<>>)

InitMenus ==
    /\ _enforcer = None
    /\ enforcers = <<>>
    /\ casbin_rule = <<>>
    /\ users = {}
    /\ menus = <<>>
    /\ workspaces = {}
    /\ roles = {}
    /\ workspace_users = {}
    /\ collection_rows = {}
    /\ response = Idle
    /\ tasks = <<>>
    /\ fn_in = Idle
    /\ fn_out = NotDone

\* admin.create_user, called by a superuser
CreateUser(is_superuser) ==
    /\ Started
    /\ \E u \in users : u.is_superuser
    /\ Cardinality(users) < MaxUsers
    /\ users' = users \cup {[id |-> Cardinality(users) + 1, is_superuser |-> is_superuser]}
    /\ response' = [op |-> "create_user", status |-> 200]
    /\ UNCHANGED <<_enforcer, enforcers, casbin_rule, menus, tasks, fn_in, fn_out, workspace_tables>>

Truthy(parent_id) == parent_id # <<>> /\ parent_id # <<0>>

\* admin.create_menu, called by a superuser: 404 when a parent is named that
\* does not exist, 409 when the (unique) name is taken
create_menu ==
    /\ Started
    /\ \E u \in users : u.is_superuser
    /\ Len(menus) < MaxMenus
    /\ \E name \in MenuNames, path \in MenuPaths, parent_id \in ParentIds :
           IF Truthy(parent_id) /\ ~\E i \in 1..Len(menus) : <<menus[i].id>> = parent_id
           THEN /\ response' = [op |-> "create_menu", status |-> 404]
                /\ UNCHANGED menus
           ELSE IF \E i \in 1..Len(menus) : menus[i].name = name
           THEN /\ response' = [op |-> "create_menu", status |-> 409]
                /\ UNCHANGED menus
           ELSE /\ menus' = Append(menus, [id |-> Len(menus) + 1, name |-> name,
                                            path |-> path, parent_id |-> parent_id])
                /\ response' = [op |-> "create_menu", status |-> 200]
    /\ UNCHANGED <<_enforcer, enforcers, casbin_rule, users, tasks, fn_in, fn_out, workspace_tables>>

\* assign_user_permission for a menu resource
assign_menu_permission ==
    \E user_id \in UserIds, workspace_id \in WorkspaceIds, path \in MenuPaths :
        Assign("assign_user_permission", "p",
               assign_user_rule(user_id, workspace_id, MENU, path, READ))

MaxWorkspaces == 1

\* Role.name of the three roles create_workspace makes, in its order; the
\* first is the administrator role the routes test for (ASCII stand-ins for
\* the names in the source)
ADMIN_ROLE == "admin"
RoleNames == <<ADMIN_ROLE, "annotator", "engineer">>

IsMember(user_id, workspace_id) ==
    \E wu \in workspace_users : wu.workspace_id = workspace_id /\ wu.user_id = user_id

\* workspaces.create_workspace: the workspace, its three roles and the
\* creator's membership with the administrator role
create_workspace ==
    /\ Started
    /\ Cardinality(workspaces) < MaxWorkspaces
    /\ \E current_user \in users :
           LET id == Cardinality(workspaces) + 1
               base == Cardinality(roles)
           IN  /\ workspaces' = workspaces \cup {id}
               /\ roles' = roles \cup {[id |-> base + k, name |-> RoleNames[k],
                                         workspace_id |-> id] : k \in 1..3}
               /\ workspace_users' = workspace_users \cup
                      {[id |-> Cardinality(workspace_users) + 1, user_id |-> current_user.id,
                        workspace_id |-> id, role_id |-> base + 1]}
               /\ response' = [op |-> "create_workspace", status |-> 200]
    /\ UNCHANGED <<_enforcer, enforcers, casbin_rule, users, menus, collection_rows,
                   tasks, fn_in, fn_out>>

RECURSIVE build_menu_tree(_, _)
\* routers/permissions.build_menu_tree with all_menus given: one item per
\* root, its children the menus of all_menus whose parent_id is the root's id
build_menu_tree(root_menus, all_menus) ==
    [i \in 1..Len(root_menus) |->
        LET root == root_menus[i]
            children == SelectSeq(all_menus, LAMBDA menu : menu.parent_id = <<root.id>>)
        IN  [id |-> root.id, name |-> root.name, path |-> root.path,
             children |-> IF children # <<>> THEN build_menu_tree(children, all_menus)
                          ELSE <<>>]]

\* the route GET /workspaces/{workspace_id}/menus: 403 for a caller who is
\* neither a member nor a superuser, else the tree built from the menus
\* permissions.get_user_menus returns, or the exception that call raises
get_user_menus_route ==
    \E current_user \in users, workspace_id \in WorkspaceIds :
        LET got == GetEnforcer
            out == get_user_menus(current_user.id, workspace_id, got.es[got.id])
            accessible == [i \in 1..Len(out.menus) |-> menus[out.menus[i]]]
            root_menus == SelectSeq(accessible, LAMBDA menu : menu.parent_id = <<>>)
            base == [op |-> "menus_route", user |-> current_user.id,
                     is_superuser |-> current_user.is_superuser,
                     workspace_id |-> workspace_id]
        IN  /\ Started
            /\ IF ~IsMember(current_user.id, workspace_id) /\ ~current_user.is_superuser
               THEN /\ response' = base @@ [status |-> 403, raised |-> "HTTPException",
                                            menus |-> <<>>, tree |-> <<>>]
                    /\ UNCHANGED <<_enforcer, enforcers>>
               ELSE /\ _enforcer' = got.id
                    /\ enforcers' = got.es
                    /\ response' = base @@
                           IF out.raised # "none"
                           THEN [status |-> 500, raised |-> out.raised,
                                 menus |-> <<>>, tree |-> <<>>]
                           ELSE [status |-> 200, raised |-> "none", menus |-> out.menus,
                                 tree |-> build_menu_tree(root_menus, accessible)]
            /\ UNCHANGED <<casbin_rule, users, menus, tasks, fn_in, fn_out, workspace_tables>>

\* permissions.get_user_menus called for a user of the users table
RequestUserMenus ==
    \E u \in users, workspace_id \in WorkspaceIds :
        LET got == GetEnforcer
            out == get_user_menus(u.id, workspace_id, got.es[got.id])
        IN  /\ Started
            /\ _enforcer' = got.id
            /\ enforcers' = got.es
            /\ response' = [op |-> "get_user_menus", user |-> u.id,
                            is_superuser |-> u.is_superuser,
                            workspace_id |-> workspace_id,
                            raised |-> out.raised, menus |-> out.menus]
            /\ UNCHANGED <<casbin_rule, users, menus, tasks, fn_in, fn_out, workspace_tables>>

RECURSIVE get_menus_build_menu_tree(_, _)
\* the function build_menu_tree nested in admin.get_menus: the menus whose
\* parent_id equals parent_id, each with the tree of its own children
get_menus_build_menu_tree(all_menus, parent_id) ==
    LET level == SelectSeq(all_menus, LAMBDA menu : menu.parent_id = parent_id)
    IN  [i \in 1..Len(level) |->
            [id |-> level[i].id, name |-> level[i].name, path |-> level[i].path,
             parent_id |-> level[i].parent_id,
             children |-> get_menus_build_menu_tree(all_menus, <<level[i].id>>)]]

\* admin.get_menus, called by a superuser: the tree of all menus from the
\* menus without a parent
get_menus ==
    /\ Started
    /\ \E u \in users : u.is_superuser
    /\ response' = [op |-> "get_menus", status |-> 200,
                    tree |-> get_menus_build_menu_tree(menus, <<>>)]
    /\ UNCHANGED <<_enforcer, enforcers, casbin_rule, users, menus, tasks, fn_in, fn_out,
                   workspace_tables>>

create_user == \E is_superuser \in BOOLEAN : CreateUser(is_superuser)

NextMenus ==
    \/ lifespan
    \/ create_user
    \/ create_menu
    \/ create_workspace
    \/ assign_menu_permission
    \/ RequestUserMenus
    \/ get_user_menus_route
    \/ get_menus

SpecMenus == InitMenus /\ [][NextMenus]_vars

\* C9: with the store reachable an evaluation of the policies ends in a plain
\* boolean, never in an exception: get_user_menus called for a user who is not
\* a superuser returns a list of menus (empty when no policy matches).
C9_EvaluationNeverRaises ==
    (response.op = "get_user_menus" /\ ~response.is_superuser) =>
        response.raised = "none"

\* the check of the menus loop for one menu row, on the enforcer and for the
\* caller and workspace of the last answer
OwnCheckPasses(menu) ==
    LET r == <<user_key(response.user), str(response.workspace_id),
               resource_obj(MENU, str(response.workspace_id), menu.path), READ>>
    IN  Allowed(_enforcer, enforcers, r)

RECURSIVE TreeIds(_)
\* the ids of all items of a menu tree, at any depth
TreeIds(tree) ==
    UNION {{tree[i].id} \cup TreeIds(tree[i].children) : i \in 1..Len(tree)}

\* the menus route has answered a caller who is not a superuser and whom it
\* did not turn away as a non-member
MenusAnswered ==
    response.op = "menus_route" /\ ~response.is_superuser /\ response.status # 403

\* C11: menu visibility is decided per node: for a caller who is not a
\* superuser the menus route ends normally, the accessible menus are exactly
\* the menus whose own read check on menu:<workspace>:<path> is allowed, and
\* no menu whose own check fails is anywhere in the returned tree.
C11_MenuVisibilityPerNode ==
    MenusAnswered =>
        /\ response.raised = "none"
        /\ \A i \in 1..Len(menus) :
               menus[i].id \in Range(response.menus) <=> OwnCheckPasses(menus[i])
        /\ \A id \in TreeIds(response.tree) : OwnCheckPasses(menus[id])

\* C12: visibility is not inherited in the returned tree: a menu whose own
\* read check passes while its parent's check fails is still an item of the
\* tree the menus route returns.
C12_VisibleChildOfHiddenParentListed ==
    MenusAnswered =>
        \A i, j \in 1..Len(menus) :
            (/\ menus[i].parent_id = <<menus[j].id>>
             /\ OwnCheckPasses(menus[i])
             /\ ~OwnCheckPasses(menus[j])) =>
                menus[i].id \in TreeIds(response.tree)

\* the index of the menu a menu's parent_id names, 0 when it has none or
\* names no menu
ParentIndex(i) ==
    IF \E j \in 1..Len(menus) : <<menus[j].id>> = menus[i].parent_id
    THEN CHOOSE j \in 1..Len(menus) : <<menus[j].id>> = menus[i].parent_id
    ELSE 0

RECURSIVE Climb(_, _)
\* where n steps from the menu at index i to its parent lead (0: off the top)
Climb(i, n) == IF n = 0 \/ i = 0 THEN i ELSE Climb(ParentIndex(i), n - 1)

RECURSIVE Occurrences(_, _)
\* how many items of a menu tree, at any depth, have the id
Occurrences(tree, id) ==
    IF tree = <<>> THEN 0
    ELSE (IF Head(tree).id = id THEN 1 ELSE 0)
         + Occurrences(Head(tree).children, id) + Occurrences(Tail(tree), id)

\* the last answer is a tree of one of the two builders
TreeReturned ==
    \/ response.op = "get_menus"
    \/ response.op = "menus_route" /\ response.status = 200

\* C22: the menus are a forest: every parent_id that is not None names a menu
\* created earlier, the parent relation has no cycle, and a tree returned by
\* admin.get_menus or by the menus route holds each menu at most once.
C22_MenusAreForest ==
    /\ \A i \in 1..Len(menus) :
           menus[i].parent_id # <<>> =>
               \E j \in 1..(i - 1) : <<menus[j].id>> = menus[i].parent_id
    /\ \A i \in 1..Len(menus) : Climb(i, Len(menus)) = 0
    /\ TreeReturned =>
           \A i \in 1..Len(menus) : Occurrences(response.tree, menus[i].id) <= 1

(***************************************************************************)
(* SpecWorkspaces: the workspace, membership and permission routes         *)
(* (routers/workspaces.py, routers/permissions.py). Handlers run one after *)
(* another.                                                                *)
(***************************************************************************)
IsWorkspaceAdmin_any_role(user_id, workspace_id) ==
    \E wu \in workspace_users : wu.workspace_id = workspace_id /\ wu.user_id = user_id

\* WorkspaceUser joined with Role: a membership of user_id in workspace_id
\* whose role is named ADMIN_ROLE
IsWorkspaceAdmin(user_id, workspace_id) ==
    \E wu \in workspace_users :
        /\ wu.workspace_id = workspace_id /\ wu.user_id = user_id
        /\ \E r \in roles : r.id = wu.role_id /\ r.name = ADMIN_ROLE

\* the ids a request can name: the users, and the second role of workspace 1
\* (not a role of any other workspace)
InviteUserIds == 1..MaxUsers
InviteRoleIds == {2}

\* workspaces.invite_user
invite_user ==
    \E current_user \in users, workspace_id \in WorkspaceIds,
       user_id \in InviteUserIds, role_id \in InviteRoleIds :
        LET got == GetEnforcer
            res == add_rule(got.es[got.id], casbin_rule, "g",
                            assign_role_grouping(user_id, role_id, workspace_id))
            refused ==
                IF ~IsWorkspaceAdmin(current_user.id, workspace_id) THEN 403
                ELSE IF ~\E u \in users : u.id = user_id THEN 404
                ELSE IF ~\E r \in roles : r.id = role_id /\ r.workspace_id = workspace_id
                THEN 404
                ELSE IF IsMember(user_id, workspace_id) THEN 400
                ELSE 0
        IN  /\ Started
            /\ IF refused # 0
               THEN /\ response' = [op |-> "invite_user", status |-> refused]
                    /\ UNCHANGED <<_enforcer, enforcers, casbin_rule, workspace_users>>
               ELSE /\ Len(casbin_rule) < MaxRules \/ ~res.added
                    /\ workspace_users' = workspace_users \cup
                           {[id |-> Cardinality(workspace_users) + 1, user_id |-> user_id,
                             workspace_id |-> workspace_id, role_id |-> role_id]}
                    /\ _enforcer' = got.id
                    /\ enforcers' = [got.es EXCEPT ![got.id] = res.e]
                    /\ casbin_rule' = res.rows
                    /\ response' = [op |-> "invite_user", status |-> 201]
            /\ UNCHANGED <<users, menus, workspaces, roles, collection_rows,
                           tasks, fn_in, fn_out>>

\* RolePermissionRequest.role_name values: a name create_workspace makes, one it does not
RequestRoleNames == {ADMIN_ROLE, "owner"}

RolesNamed_any_workspace(workspace_id, role_name) ==
    {r \in roles : r.name = role_name}

\* the roles of the workspace with that name
RolesNamed(workspace_id, role_name) ==
    {r \in roles : r.workspace_id = workspace_id /\ r.name = role_name}

\* permissions router, set_role_permission
set_role_permission ==
    \E current_user \in users, workspace_id \in WorkspaceIds, role_name \in RequestRoleNames :
        LET got == GetEnforcer
            found == RolesNamed(workspace_id, role_name)
            role == CHOOSE r \in found : TRUE
            res == add_rule(got.es[got.id], casbin_rule, "p",
                            assign_role_rule(role.id, workspace_id, API, collections, WRITE))
            refused ==
                IF ~IsWorkspaceAdmin(current_user.id, workspace_id) /\ ~current_user.is_superuser
                THEN 403
                ELSE IF found = {} THEN 404
                ELSE 0
            base == [op |-> "set_role_permission", current_user |-> current_user,
                     workspace_id |-> workspace_id, role_name |-> role_name]
        IN  /\ Started
            /\ IF refused # 0
               THEN /\ response' = base @@ [status |-> refused]
                    /\ _enforcer' = got.id
                    /\ enforcers' = got.es
                    /\ UNCHANGED casbin_rule
               ELSE /\ Len(casbin_rule) < MaxRules \/ ~res.added
                    /\ _enforcer' = got.id
                    /\ enforcers' = [got.es EXCEPT ![got.id] = res.e]
                    /\ casbin_rule' = res.rows
                    /\ response' = base @@ [status |-> 200]
            /\ UNCHANGED <<users, menus, workspace_tables, tasks, fn_in, fn_out>>

\* UserPermissionRequest resource_type, resource_path pairs
UserPermissionResources == {
    <<API, collections \o <<"/", "*">>>>,
    <<DATA, collections \o <<"/", "1">>>> }

\* the resource check of set_user_permission: a data permission on
\* collections/<digits> needs that collection in the workspace
ResourceMissing(workspace_id, resource_type, resource_path) ==
    /\ resource_type = DATA
    /\ StartsWithAt(resource_path, 1, collections \o <<"/">>)
    /\ LET parts == Split(resource_path)
       IN  /\ Len(parts) >= 2 /\ isdigit(parts[2])
           /\ ~\E c \in collection_rows :
                  c.id = int(parts[2]) /\ c.workspace_id = workspace_id

\* permissions router, set_user_permission
set_user_permission ==
    \E current_user \in users, workspace_id \in WorkspaceIds,
       user_id \in InviteUserIds, resource \in UserPermissionResources :
        LET got == GetEnforcer
            res == add_rule(got.es[got.id], casbin_rule, "p",
                            assign_user_rule(user_id, workspace_id, resource[1], resource[2], READ))
            refused ==
                IF ~IsWorkspaceAdmin(current_user.id, workspace_id) /\ ~current_user.is_superuser
                THEN 403
                ELSE IF ~\E u \in users : u.id = user_id THEN 404
                ELSE IF ~IsMember(user_id, workspace_id) THEN 404
                ELSE IF ResourceMissing(workspace_id, resource[1], resource[2]) THEN 404
                ELSE 0
            base == [op |-> "set_user_permission", current_user |-> current_user,
                     workspace_id |-> workspace_id, user_id |-> user_id]
        IN  /\ Started
            /\ IF refused # 0
               THEN /\ response' = base @@ [status |-> refused]
                    /\ _enforcer' = got.id
                    /\ enforcers' = got.es
                    /\ UNCHANGED casbin_rule
               ELSE /\ Len(casbin_rule) < MaxRules \/ ~res.added
                    /\ _enforcer' = got.id
                    /\ enforcers' = [got.es EXCEPT ![got.id] = res.e]
                    /\ casbin_rule' = res.rows
                    /\ response' = base @@ [status |-> 200]
            /\ UNCHANGED <<users, menus, workspace_tables, tasks, fn_in, fn_out>>

\* admin.create_user for an ordinary user (the superuser is the seeded one)
create_ordinary_user == CreateUser(FALSE)

NextWorkspaces ==
    \/ lifespan
    \/ create_ordinary_user
    \/ create_workspace
    \/ invite_user
    \/ set_role_permission
    \/ set_user_permission

SpecWorkspaces == Init /\ [][NextWorkspaces]_vars

\* C14: every membership row (user u, workspace w, role r) has its grouping
\* tuple (user:u, role:r, w) in the policy store and in the shared enforcer.
C14_MembershipHasGrouping ==
    \A wu \in workspace_users :
        LET g == assign_role_grouping(wu.user_id, wu.role_id, wu.workspace_id)
        IN  /\ g \in StoredGroupings
            /\ _enforcer # None /\ g \in Range(enforcers[_enforcer].g)

\* the caller is an administrator of the workspace, by the tables
AdministratorOf(user_id, workspace_id) ==
    \E wu \in workspace_users, r \in roles :
        /\ wu.user_id = user_id /\ wu.workspace_id = workspace_id
        /\ r.id = wu.role_id /\ r.name = ADMIN_ROLE

\* the request resp must be refused: the caller is neither an administrator of
\* the workspace nor a superuser, or the role named is not a role of the
\* workspace, or the user named does not exist or is not a member of it
MustRefuse(resp) ==
    \/ ~AdministratorOf(resp.current_user.id, resp.workspace_id)
          /\ ~resp.current_user.is_superuser
    \/ /\ resp.op = "set_role_permission"
       /\ ~\E r \in roles : r.workspace_id = resp.workspace_id /\ r.name = resp.role_name
    \/ /\ resp.op = "set_user_permission"
       /\ \/ ~\E u \in users : u.id = resp.user_id
          \/ ~\E wu \in workspace_users :
                 wu.user_id = resp.user_id /\ wu.workspace_id = resp.workspace_id

SetPermissionOps == {"set_role_permission", "set_user_permission"}

\* C18: a set_role_permission or set_user_permission call that must be refused
\* ends in 403 or 404 and leaves the policy set and the grouping set as they were.
C18_OnlyAdministratorsChangePolicies ==
    [][ (response'.op \in SetPermissionOps /\ MustRefuse(response')) =>
            /\ response'.status \in {403, 404}
            /\ casbin_rule' = casbin_rule
            /\ enforcers' = enforcers ]_vars

\* a member of the workspace who is not its administrator was refused, and an
\* administrator's call had stored a policy before
C18_Witness ==
    /\ response.op \in SetPermissionOps
    /\ response.status = 403
    /\ \E wu \in workspace_users :
           wu.user_id = response.current_user.id /\ wu.workspace_id = response.workspace_id
    /\ StoredPolicies # {}

\* C20: every stored permission policy has the id of a workspace as its domain
\* (never '*'), an object <type>:<domain>:<path> with that same id, and, when
\* its subject is role:<id>, a role that belongs to that workspace.
C20_PoliciesConfinedToWorkspace ==
    \A p \in StoredPolicies :
        /\ p[2] # WILDCARD
        /\ \E w \in workspaces : p[2] = str(w)
        /\ \E type \in {API, MENU, DATA} :
               StartsWithAt(p[3], 1, type \o <<":">> \o p[2] \o <<":">>)
        /\ StartsWithAt(p[1], 1, s_role) =>
               \E r \in roles : p[1] = role_key(r.id) /\ p[2] = str(r.workspace_id)

\* a role policy and a user policy are stored
C20_Witness ==
    /\ \E p \in StoredPolicies : StartsWithAt(p[1], 1, s_role)
    /\ \E p \in StoredPolicies : StartsWithAt(p[1], 1, s_user)

(***************************************************************************)
(* SpecRoles: assign_user_role called for several users and roles.         *)
(***************************************************************************)
GrantUserIds == {2, 3}
GrantRoleIds == {1, 2}

\* permissions.assign_user_role for any of the users, roles and workspaces
grant_user_role ==
    \E user_id \in GrantUserIds, role_id \in GrantRoleIds, workspace_id \in WorkspaceIds :
        Assign("assign_user_role", "g", assign_role_grouping(user_id, role_id, workspace_id))

NextRoles == lifespan \/ grant_user_role

SpecRoles == Init /\ [][NextRoles]_vars

\* the user and role identities of this specification
GrantSubjects == {user_key(u) : u \in GrantUserIds}
GrantRoles    == {role_key(r) : r \in GrantRoleIds}

\* C15: every grouping has a user identity as member and a role identity as
\* role, no role is a member of a grouping, and the subjects that apply to a
\* user in a domain are the user and exactly the roles directly granted to it
\* in that domain.
C15_OneHopRoleExpansion ==
    /\ \A g \in StoredGroupings :
           /\ StartsWithAt(g[1], 1, s_user \o <<":">>)
           /\ StartsWithAt(g[2], 1, s_role \o <<":">>)
           /\ ~\E h \in StoredGroupings : h[1] = g[2]
    /\ _enforcer # None =>
           \A sub \in GrantSubjects, w \in WorkspaceIds :
               EffectiveSubjects(enforcers[_enforcer].g, sub, str(w),
                                 GrantSubjects \cup GrantRoles)
                   = {sub} \cup RolesIn(sub, str(w))

\* a user holds two roles in the same domain, and both apply
C15_Witness ==
    /\ _enforcer # None
    /\ RolesIn(user_key(2), ws1) = GrantRoles
    /\ EffectiveSubjects(enforcers[_enforcer].g, user_key(2), ws1,
                         GrantSubjects \cup GrantRoles) = {user_key(2)} \cup GrantRoles

(***************************************************************************)
(* SpecInvite: invite_user and create_workspace as coroutines of concurrent *)
(* requests. Each request has its own session; a coroutine suspends at     *)
(* every awaited statement (a query or a commit), and the statements of    *)
(* different requests interleave. The arrival of a request is taken        *)
(* together with its first statement.                                      *)
(***************************************************************************)
MaxRequests == 3

\* role ids an invitation can name: the second and third role of workspace 1
ConcurrentRoleIds == {2, 3}

\* a request in flight: the handler, the statement it executes next, its
\* parameters, and the status it ended with (0 while running)
Request(kind, pc, current_user, workspace_id, user_id, role_id, status) ==
    [kind |-> kind, pc |-> pc, current_user |-> current_user,
     workspace_id |-> workspace_id, user_id |-> user_id, role_id |-> role_id,
     status |-> status]

\* the request moves on to the statement pc ("done": it answers with status)
Proceed(t, pc, status) == tasks' = [tasks EXCEPT ![t].pc = pc, ![t].status = status]

At(t, kind, pc) == t \in 1..Len(tasks) /\ tasks[t].kind = kind /\ tasks[t].pc = pc

\* invite_user up to its first query: is the caller an administrator of the
\* workspace (403 if not)
invite_user_admin_query ==
    /\ Started
    /\ Len(tasks) < MaxRequests
    /\ \E current_user \in users, workspace_id \in WorkspaceIds,
          user_id \in InviteUserIds, role_id \in ConcurrentRoleIds :
           tasks' = Append(tasks,
               IF ~IsWorkspaceAdmin(current_user.id, workspace_id)
               THEN Request("invite_user", "done", current_user.id, workspace_id,
                            user_id, role_id, 403)
               ELSE Request("invite_user", "user_query", current_user.id, workspace_id,
                            user_id, role_id, 0))
    /\ UNCHANGED <<_enforcer, enforcers, casbin_rule, users, menus, response,
                   fn_in, fn_out, workspace_tables>>

\* does the invited user exist (404 if not)
invite_user_user_query ==
    \E t \in 1..Len(tasks) :
        /\ At(t, "invite_user", "user_query")
        /\ IF ~\E u \in users : u.id = tasks[t].user_id
           THEN Proceed(t, "done", 404) ELSE Proceed(t, "role_query", 0)
        /\ UNCHANGED <<_enforcer, enforcers, casbin_rule, users, menus, response,
                       fn_in, fn_out, workspace_tables>>

\* is the role a role of the workspace (404 if not)
invite_user_role_query ==
    \E t \in 1..Len(tasks) :
        /\ At(t, "invite_user", "role_query")
        /\ IF ~\E r \in roles : r.id = tasks[t].role_id
                                  /\ r.workspace_id = tasks[t].workspace_id
           THEN Proceed(t, "done", 404) ELSE Proceed(t, "member_query", 0)
        /\ UNCHANGED <<_enforcer, enforcers, casbin_rule, users, menus, response,
                       fn_in, fn_out, workspace_tables>>

\* is the invited user in the workspace already (400 if so)
invite_user_member_query ==
    \E t \in 1..Len(tasks) :
        /\ At(t, "invite_user", "member_query")
        /\ IF IsMember(tasks[t].user_id, tasks[t].workspace_id)
           THEN Proceed(t, "done", 400) ELSE Proceed(t, "insert", 0)
        /\ UNCHANGED <<_enforcer, enforcers, casbin_rule, users, menus, response,
                       fn_in, fn_out, workspace_tables>>

\* db.add(workspace_user); commit: the table has no constraint on
\* (user_id, workspace_id), the insert always succeeds
invite_user_insert ==
    \E t \in 1..Len(tasks) :
        /\ At(t, "invite_user", "insert")
        /\ workspace_users' = workspace_users \cup
               {[id |-> Cardinality(workspace_users) + 1, user_id |-> tasks[t].user_id,
                 workspace_id |-> tasks[t].workspace_id, role_id |-> tasks[t].role_id]}
        /\ Proceed(t, "assign_user_role", 0)
        /\ UNCHANGED <<_enforcer, enforcers, casbin_rule, users, menus, workspaces,
                       roles, collection_rows, response, fn_in, fn_out>>

\* get_enforcer and assign_user_role, then the 201 answer
invite_user_assign_role ==
    \E t \in 1..Len(tasks) :
        LET got == GetEnforcer
            res == add_rule(got.es[got.id], casbin_rule, "g",
                            assign_role_grouping(tasks[t].user_id, tasks[t].role_id,
                                                 tasks[t].workspace_id))
        IN  /\ At(t, "invite_user", "assign_user_role")
            /\ Len(casbin_rule) < MaxRules \/ ~res.added
            /\ _enforcer' = got.id
            /\ enforcers' = [got.es EXCEPT ![got.id] = res.e]
            /\ casbin_rule' = res.rows
            /\ Proceed(t, "done", 201)
            /\ UNCHANGED <<users, menus, response, fn_in, fn_out, workspace_tables>>

\* create_workspace up to its first commit: the workspace row
create_workspace_insert ==
    /\ Started
    /\ Len(tasks) < MaxRequests
    /\ Cardinality(workspaces) < MaxWorkspaces
    /\ \E current_user \in users :
           LET id == Cardinality(workspaces) + 1
           IN  /\ workspaces' = workspaces \cup {id}
               /\ tasks' = Append(tasks, Request("create_workspace", "roles",
                                                 current_user.id, id, 0, 0, 0))
    /\ UNCHANGED <<_enforcer, enforcers, casbin_rule, users, menus, roles,
                   workspace_users, collection_rows, response, fn_in, fn_out>>

\* the three roles of the new workspace, one commit
create_workspace_roles ==
    \E t \in 1..Len(tasks) :
        LET base == Cardinality(roles)
        IN  /\ At(t, "create_workspace", "roles")
            /\ roles' = roles \cup {[id |-> base + k, name |-> RoleNames[k],
                                      workspace_id |-> tasks[t].workspace_id] : k \in 1..3}
            /\ Proceed(t, "admin_role_query", 0)
            /\ UNCHANGED <<_enforcer, enforcers, casbin_rule, users, menus, workspaces,
                           workspace_users, collection_rows, response, fn_in, fn_out>>

\* the administrator role of the new workspace is looked up
create_workspace_admin_role_query ==
    \E t \in 1..Len(tasks) :
        /\ At(t, "create_workspace", "admin_role_query")
        /\ \E r \in roles :
               /\ r.workspace_id = tasks[t].workspace_id /\ r.name = ADMIN_ROLE
               /\ tasks' = [tasks EXCEPT ![t].pc = "membership", ![t].role_id = r.id]
        /\ UNCHANGED <<_enforcer, enforcers, casbin_rule, users, menus, response,
                       fn_in, fn_out, workspace_tables>>

\* the creator's membership with the administrator role, then the answer
create_workspace_membership ==
    \E t \in 1..Len(tasks) :
        /\ At(t, "create_workspace", "membership")
        /\ workspace_users' = workspace_users \cup
               {[id |-> Cardinality(workspace_users) + 1,
                 user_id |-> tasks[t].current_user,
                 workspace_id |-> tasks[t].workspace_id, role_id |-> tasks[t].role_id]}
        /\ Proceed(t, "done", 200)
        /\ UNCHANGED <<_enforcer, enforcers, casbin_rule, users, menus, workspaces,
                       roles, collection_rows, response, fn_in, fn_out>>

NextInvite ==
    \/ lifespan
    \/ create_ordinary_user
    \/ create_workspace_insert
    \/ create_workspace_roles
    \/ create_workspace_admin_role_query
    \/ create_workspace_membership
    \/ invite_user_admin_query
    \/ invite_user_user_query
    \/ invite_user_role_query
    \/ invite_user_member_query
    \/ invite_user_insert
    \/ invite_user_assign_role

SpecInvite == Init /\ [][NextInvite]_vars

\* C21: a user has at most one membership per workspace: the workspace_users
\* table never holds two rows with the same user and the same workspace,
\* whatever the interleaving of invite_user and create_workspace requests.
C21_OneMembershipPerWorkspace ==
    \A a, b \in workspace_users :
        (a.user_id = b.user_id /\ a.workspace_id = b.workspace_id) => a = b

(***************************************************************************)
(* SpecMatch: the pure functions of the casbin model, each applied once to *)
(* an input drawn from a bounded set.                                      *)
(***************************************************************************)
MaxGroupings == 2

\* objects of the shape <type>:<workspace>:<path> the program builds
Objects == {
    resource_obj(API, ws1, collections),
    resource_obj(API, ws1, collections \o <<"/", "*">>),
    resource_obj(API, ws1, collections \o <<"/">> \o seg42),
    resource_obj(API, ws1, collections \o <<"/">> \o segabc),
    resource_obj(API, ws1, datasets \o <<"/">> \o seg42),
    resource_obj(API, ws1, datasets),
    resource_obj(MENU, ws1, collections),
    resource_obj(API, ws2, collections) }

KeyMatchInputs ==
    {[op |-> "keyMatch2", key1 |-> k1, key2 |-> k2] : k1 \in Objects, k2 \in Objects}

RECURSIVE SetToSeq(_)
SetToSeq(S) == IF S = {} THEN <<>>
               ELSE LET x == CHOOSE y \in S : TRUE IN <<x>> \o SetToSeq(S \ {x})

MatchSubjects == {user_key(5), user_key(6)}
MatchRoles    == {role_key(1), role_key(2)}
MatchDomains  == {ws1, ws2, WILDCARD}
MatchGroupings == MatchSubjects \X MatchRoles \X MatchDomains

EffectiveInputs ==
    {[op |-> "effective", G |-> G, sub |-> u, dom |-> d] :
        G \in {X \in SUBSET MatchGroupings : Cardinality(X) <= MaxGroupings},
        u \in MatchSubjects, d \in {ws1, ws2}}

EnforceInputs ==
    {[op |-> "enforce", G |-> G, p |-> p, r |-> r] :
        G \in SUBSET ({user_key(5)} \X {role_key(1)} \X MatchDomains),
        p \in {user_key(5), role_key(1)} \X MatchDomains
              \X {resource_obj(API, ws1, collections),
                  resource_obj(API, ws1, collections \o <<"/", "*">>),
                  resource_obj(MENU, ws1, collections)}
              \X {READ, WRITE, ALL},
        r \in {user_key(5)} \X {ws1, ws2}
              \X {resource_obj(API, ws1, collections),
                  resource_obj(API, ws1, collections \o <<"/">> \o seg42)}
              \X {READ, WRITE}}

\* parameter names of which one is a prefix of the other, and values of which
\* some look like a placeholder
n_id  == <<"i", "d">>
n_id2 == <<"i", "d", "2">>
Braced(name) == <<"{">> \o name \o <<"}">>
Coloned(name) == <<":">> \o name
ParamValues == {seg42, <<"7">>, Braced(n_id2), Coloned(n_id2)}

\* resource_path templates require_permission is given: those of the collection
\* routes, and templates in either placeholder style with two parameters
Templates == {
    collections,
    collections \o <<"/">> \o Braced(n_collection_id),
    collections \o <<"/">> \o Braced(n_collection_id) \o <<"/", "i", "t", "e", "m", "s">>,
    Braced(n_id) \o <<"/">> \o Braced(n_id2),
    Coloned(n_id) \o <<"/">> \o Coloned(n_id2),
    Coloned(n_id2) \o <<"/">> \o Coloned(n_id) }

\* request.path_params: workspace_id first, then the route's other parameters
\* in the order of the route path
SubstituteInputs ==
    {[op |-> "substitute", resource_type |-> API, resource_path |-> t,
      path_params |-> <<<<n_workspace_id, ws1>>>> \o pp] :
        t \in Templates,
        pp \in {<<<<n_collection_id, v>>>> : v \in ParamValues}
              \cup {<<<<n_id, v>>, <<n_id2, w>>>> : v \in ParamValues, w \in {seg42, <<"7">>}}
              \cup {<<<<n_id2, w>>, <<n_id, v>>>> : v \in ParamValues, w \in {seg42, <<"7">>}}}

MatchInit ==
    /\ fn_in \in KeyMatchInputs \cup EffectiveInputs \cup EnforceInputs \cup SubstituteInputs
    /\ fn_out = NotDone
    /\ _enforcer = None
    /\ enforcers = <<>>
    /\ casbin_rule = <<>>
    /\ users = {}
    /\ menus = <<>>
    /\ workspaces = {}
    /\ roles = {}
    /\ workspace_users = {}
    /\ collection_rows = {}
    /\ response = Idle
    /\ tasks = <<>>

EvalKeyMatch2 ==
    /\ fn_in.op = "keyMatch2"
    /\ ~fn_out.done
    /\ fn_out' = [done |-> TRUE,
                  raised |-> keyMatch2Raises(fn_in.key2),
                  v |-> ~keyMatch2Raises(fn_in.key2) /\ keyMatch2(fn_in.key1, fn_in.key2)]
    /\ UNCHANGED <<_enforcer, enforcers, casbin_rule, users, menus, response, tasks, fn_in, workspace_tables>>

EvalEffectiveSubjects ==
    /\ fn_in.op = "effective"
    /\ ~fn_out.done
    /\ fn_out' = [done |-> TRUE,
                  v |-> EffectiveSubjects(SetToSeq(fn_in.G), fn_in.sub, fn_in.dom,
                                          MatchSubjects \cup MatchRoles)]
    /\ UNCHANGED <<_enforcer, enforcers, casbin_rule, users, menus, response, tasks, fn_in, workspace_tables>>

EvalEnforce ==
    /\ fn_in.op = "enforce"
    /\ ~fn_out.done
    /\ LET e == [p |-> <<fn_in.p>>, g |-> SetToSeq(fn_in.G), loaded |-> TRUE]
       IN  fn_out' = [done |-> TRUE,
                      raised |-> enforceRaises(e, fn_in.r),
                      v |-> enforce(e, fn_in.r)]
    /\ UNCHANGED <<_enforcer, enforcers, casbin_rule, users, menus, response, tasks, fn_in, workspace_tables>>

\* the object check_permission hands to enforce for an ordinary user, on an
\* enforcer without policies
EvalResourceObject ==
    /\ fn_in.op = "substitute"
    /\ ~fn_out.done
    /\ LET e == [p |-> <<>>, g |-> <<>>, loaded |-> TRUE]
           out == check_permission([resource_type |-> fn_in.resource_type,
                                    resource_path |-> fn_in.resource_path,
                                    action |-> READ],
                                   [id |-> 2, is_superuser |-> FALSE],
                                   fn_in.path_params, e)
       IN  fn_out' = [done |-> TRUE, enforced |-> out.enforced, v |-> out.r[3]]
    /\ UNCHANGED <<_enforcer, enforcers, casbin_rule, users, menus, response, tasks, fn_in, workspace_tables>>

MatchNext == EvalKeyMatch2 \/ EvalEffectiveSubjects \/ EvalEnforce \/ EvalResourceObject

SpecMatch == MatchInit /\ [][MatchNext]_vars

(***************************************************************************)
(* Claims about the matcher and the role graph (SpecMatch)                 *)
(***************************************************************************)
\* the object rule as the specification words it: segment by segment, a policy
\* segment '*' matching any segment, a trailing '*' matching the remainder
SegmentMatch(key1, key2) ==
    LET rs == Split(key1)
        ps == Split(key2)
        segOK(i) == ps[i] = rs[i] \/ ps[i] = <<"*">>
    IN  /\ Len(rs) >= Len(ps)
        /\ \A i \in 1..Len(ps) : segOK(i)
        /\ (Len(rs) = Len(ps) \/ ps[Len(ps)] = <<"*">>)

\* C3: the object rule of the matcher is the segment-by-segment comparison:
\* keyMatch2(request object, policy object) never raises and is true exactly
\* when SegmentMatch is; in particular api:1:collections/* does not match
\* api:1:datasets/42.
C3_ObjectRuleIsSegmentwise ==
    (fn_in.op = "keyMatch2" /\ fn_out.done) =>
        /\ ~fn_out.raised
        /\ fn_out.v = SegmentMatch(fn_in.key1, fn_in.key2)

\* C4: a policy yields an allow decision only when the domain rule, the object
\* rule and the action rule hold together; a policy of domain 1 never allows a
\* request in domain 2 and a read policy never allows a write request.
C4_AllThreeDimensions ==
    (fn_in.op = "enforce" /\ fn_out.done /\ fn_out.v) =>
        /\ DomainRule(fn_in.r, fn_in.p)
        /\ ObjectRule(fn_in.r, fn_in.p)
        /\ ActionRule(fn_in.r, fn_in.p)
        /\ ~(fn_in.p[2] = ws1 /\ fn_in.r[2] = ws2)
        /\ ~(fn_in.p[4] = READ /\ fn_in.r[4] = WRITE)

\* an allow through a wildcard-domain, wildcard-action policy held by a role
C4_Witness ==
    /\ fn_in.op = "enforce" /\ fn_out.done /\ fn_out.v
    /\ fn_in.p[1] = role_key(1)
    /\ fn_in.p[2] = WILDCARD /\ fn_in.p[4] = ALL

\* C6: the effective subjects are the subject plus every role granted to it in
\* the requested domain or in the wildcard domain '*', so that a grouping
\* stored under '*' applies in every concrete request domain.
C6_WildcardGroupingApplies ==
    (fn_in.op = "effective" /\ fn_out.done) =>
        fn_out.v = {fn_in.sub} \cup
            {t[2] : t \in {x \in fn_in.G : x[1] = fn_in.sub /\ x[3] \in {fn_in.dom, WILDCARD}}}

\* the parameters whose placeholder starts at position i of the template:
\* "{name}", or ":name" not followed by a further name character
NameChars == {"a", "b", "c", "d", "e", "i", "k", "l", "m", "n", "o", "p", "r", "s", "t", "w",
              "_", "0", "1", "2", "3", "4", "5", "6", "7", "8", "9"}
PlaceholderAt(template, i, name) ==
    \/ StartsWithAt(template, i, Braced(name))
    \/ /\ StartsWithAt(template, i, Coloned(name))
       /\ LET j == i + Len(name) + 1
          IN  j > Len(template) \/ template[j] \notin NameChars

PlaceholderLen(template, i, name) ==
    IF StartsWithAt(template, i, Braced(name)) THEN Len(name) + 2 ELSE Len(name) + 1

RECURSIVE ExpectedPath(_, _, _)
\* the template with each placeholder replaced by the value of exactly its
\* parameter, in one pass from the left
ExpectedPath(template, path_params, i) ==
    IF i > Len(template) THEN <<>>
    ELSE LET hits == {k \in 1..Len(path_params) : PlaceholderAt(template, i, path_params[k][1])}
         IN  IF hits = {} THEN <<template[i]>> \o ExpectedPath(template, path_params, i + 1)
             ELSE LET k == CHOOSE h \in hits : TRUE
                  IN  path_params[k][2] \o
                      ExpectedPath(template, path_params,
                                   i + PlaceholderLen(template, i, path_params[k][1]))

\* C17: the object check_permission passes to enforce is
\* <type>:<workspace_id>:<path>, the path being the template with each {name}
\* and :name placeholder replaced by the value of exactly that parameter,
\* whatever the order of the parameters, also when one name is a prefix of
\* another and when a value looks like a placeholder.
C17_ResourceObjectConstruction ==
    (fn_in.op = "substitute" /\ fn_out.done) =>
        /\ fn_out.enforced
        /\ fn_out.v = resource_obj(fn_in.resource_type, ws1,
                                   ExpectedPath(fn_in.resource_path, fn_in.path_params, 1))

====
